---- MODULE Spec2Model ----
(***************************************************************************)
(* TX Engine per-frame budget ledgers (TXFrameMemoryBudget.cpp):           *)
(*   - FrameMemoryBudgetSystem: 8 domains, unsigned byte counters          *)
(*   - ErrorBudgetSystem: 5 error types, float counters                    *)
(*                                                                         *)
(* Unsigned arithmetic is modular. The machine word is WordBits wide       *)
(* (uint64_t in the source; the width is scaled down so that every wrap    *)
(* of the 64-bit code happens inside the explored range).                  *)
(* Float quantities of the error ledger are held in hundredths (1.0f is    *)
(* 100); the inputs explored are chosen so that every product is exact on  *)
(* that grid. NaN, infinities and float rounding are outside the model.    *)
(***************************************************************************)
EXTENDS Integers, FiniteSets, Sequences, TLC

WordBits == 12
Modulus == 2 ^ WordBits

\* enum class FrameMemoryDomain
Domains == {"Geometry", "Animation", "Textures", "Particles",
            "AI", "Audio", "Physics", "UI"}

\* Base distribution applied by Initialize: percent of the frame total
Percent == [d \in Domains |->
              CASE d = "Geometry"  -> 30
                [] d = "Textures"  -> 25
                [] d = "Animation" -> 10
                [] d = "Particles" -> 8
                [] d = "Physics"   -> 8
                [] d = "AI"        -> 7
                [] d = "Audio"     -> 6
                [] d = "UI"        -> 6]

\* Arguments explored for Initialize(totalFrameBudget)
Totals == {0, 20, 100, Modulus \div 2}

\* Arguments explored for Request(domain, bytes); Modulus - 5 is a
\* near-maximal unsigned value
Amounts == {0, 5, 15, 20, Modulus - 5}

\* enum class ErrorType
ErrorTypes == {"Spatial", "Temporal", "Shading", "Reflection", "Volumetric"}

\* ErrorBudgetSystem::BaseLimits, in hundredths
BaseLimits == [t \in ErrorTypes |->
                 CASE t = "Spatial"    -> 100
                   [] t = "Temporal"   -> 80
                   [] t = "Shading"    -> 60
                   [] t = "Reflection" -> 50
                   [] t = "Volumetric" -> 70]

\* Values explored for each field of PerceptualState, in hundredths
PerceptualValues == {-300, 0, 50}

\* The PerceptualState arguments explored: each field drives one limit
\* on its own, so the fields are varied one at a time
PerceptualStates ==
    {p \in [CameraVelocity : PerceptualValues,
            FocusDepth     : PerceptualValues,
            Luminance      : PerceptualValues] :
        Cardinality({f \in {"CameraVelocity", "FocusDepth", "Luminance"} :
                        p[f] # 0}) <= 1}

\* Arguments explored for ErrorBudgetSystem::Request(type, amount), in hundredths
ErrAmounts == {-50, 50, 100}

\* Requests admitted by the error ledger between two Reset calls
MaxErrRequests == 2

\* Arguments explored when the error ledger is driven through a whole frame
MaxSatRequests == 5
SatAmounts == {-50, 100}
SatPerceptualStates ==
    {p \in PerceptualStates : p.FocusDepth = 0 /\ p.Luminance = 0}

\* Threads calling Request on one shared memory ledger
NThreads == 2
Threads == 1 .. NThreads

\* Frame total, domains and amounts explored for the concurrent callers
ConcTotals  == {100}
ConcDomains == {"Geometry", "UI"}
ConcAmounts == {5, 20}

VARIABLES
    instance,       \* which of the two (independent) ledger objects the run drives
    Budgets,        \* FrameMemoryBudgetSystem::Budgets[Count] {MaxBytes, UsedBytes}
    TotalBudget,    \* FrameMemoryBudgetSystem::TotalBudget
    ErrBudgets,     \* ErrorBudgetSystem::Budgets[ERROR_TYPE_COUNT] {Current, Limit}
    admitted,       \* error-ledger requests admitted since the last Reset
    targeted,       \* error types that have been the target of a Request
    threads,        \* per thread: its position inside Request and its locals
    call            \* the last call made on the ledger and what it returned

vars == <<instance, Budgets, TotalBudget, ErrBudgets, admitted, targeted,
          threads, call>>

memVars == <<Budgets, TotalBudget>>
errVars == <<ErrBudgets, admitted, targeted>>

\* A thread that is not inside Request
Idle == [pc |-> "idle", domain |-> "", bytes |-> 0, reg |-> 0]

Called(op, key, amount, ret) ==
    [op |-> op, key |-> key, amount |-> amount, ret |-> ret]

----------------------------------------------------------------------------
(* FrameMemoryBudgetSystem *)

\* uint64_t addition and multiplication
AddU(a, b) == (a + b) % Modulus
MulU(a, b) == (a * b) % Modulus

\* std::memset(Budgets, 0, sizeof(Budgets))
ZeroBudgets == [d \in Domains |-> [MaxBytes |-> 0, UsedBytes |-> 0]]

\* { totalFrameBudget * pct / 100, 0 } for each domain
InitializeBudgets(total) ==
    [d \in Domains |->
        [MaxBytes |-> MulU(total, Percent[d]) \div 100, UsedBytes |-> 0]]

\* Variant: the loop stops one domain short (i < Count - 1), UI is not cleared
BeginFrameBudgets_SkipsLast(b) ==
    [d \in Domains |-> IF d = "UI" THEN b[d] ELSE [b[d] EXCEPT !.UsedBytes = 0]]

\* Variant: the per-frame reset clears the whole table, as Reset does
BeginFrameBudgets_Memset(b) == [d \in Domains |-> [MaxBytes |-> 0, UsedBytes |-> 0]]

\* for every i: Budgets[i].UsedBytes = 0
BeginFrameBudgets(b) == [d \in Domains |-> [b[d] EXCEPT !.UsedBytes = 0]]

\* Variant: the check tests the counter before the request is added to it
RequestAdmits_ChecksBeforeAdding(budget, bytes) ==
    ~(budget.UsedBytes > budget.MaxBytes)

\* Variant: the check compares the request alone against the limit
RequestAdmits_IgnoresUsed(budget, bytes) == ~(bytes > budget.MaxBytes)

\* The negation of the early return of Request:
\*   if (budget.UsedBytes + bytes > budget.MaxBytes) return false;
RequestAdmits(budget, bytes) ==
    ~(AddU(budget.UsedBytes, bytes) > budget.MaxBytes)

\* budget.UsedBytes += bytes
RequestCharge(budget, bytes) ==
    [budget EXCEPT !.UsedBytes = AddU(@, bytes)]

\* Variant: the limits are replaced but the consumption is kept
Initialize_KeepsUsed(total) ==
    /\ instance = "Memory"
    /\ TotalBudget' = total
    /\ Budgets' = [d \in Domains |->
                      [InitializeBudgets(total)[d] EXCEPT
                          !.UsedBytes = Budgets[d].UsedBytes]]
    /\ call' = Called("Initialize", "", total, "void")
    /\ UNCHANGED <<instance, errVars, threads>>

Reset ==
    /\ instance = "Memory"
    /\ Budgets' = ZeroBudgets
    /\ TotalBudget' = 0
    /\ call' = Called("Reset", "", 0, "void")
    /\ UNCHANGED <<instance, errVars, threads>>

Initialize(total) ==
    /\ instance = "Memory"
    /\ TotalBudget' = total
    /\ Budgets' = InitializeBudgets(total)
    /\ call' = Called("Initialize", "", total, "void")
    /\ UNCHANGED <<instance, errVars, threads>>

BeginFrame ==
    /\ instance = "Memory"
    /\ Budgets' = BeginFrameBudgets(Budgets)
    /\ call' = Called("BeginFrame", "", 0, "void")
    /\ UNCHANGED <<instance, TotalBudget, errVars, threads>>

\* Variant: the counter is charged before the limit is checked
Request_ChargesBeforeCheck(domain, bytes) ==
    /\ instance = "Memory"
    /\ Budgets' = [Budgets EXCEPT ![domain].UsedBytes = (@ + bytes) % Modulus]
    /\ call' = Called("Request", domain, bytes,
                      IF Budgets'[domain].UsedBytes > Budgets[domain].MaxBytes
                      THEN "false" ELSE "true")
    /\ UNCHANGED <<instance, TotalBudget, errVars, threads>>

Request(domain, bytes) ==
    /\ instance = "Memory"
    /\ IF RequestAdmits(Budgets[domain], bytes)
       THEN /\ Budgets' = [Budgets EXCEPT ![domain] = RequestCharge(@, bytes)]
            /\ call' = Called("Request", domain, bytes, "true")
       ELSE /\ UNCHANGED Budgets
            /\ call' = Called("Request", domain, bytes, "false")
    /\ UNCHANGED <<instance, TotalBudget, errVars, threads>>

\* Variant: the query reports the consumption instead of what is left
GetRemaining_ReportsUsed(domain) == Budgets[domain].UsedBytes

\* (MaxBytes > UsedBytes) ? (MaxBytes - UsedBytes) : 0
GetRemaining(domain) ==
    IF Budgets[domain].MaxBytes > Budgets[domain].UsedBytes
    THEN Budgets[domain].MaxBytes - Budgets[domain].UsedBytes
    ELSE 0

\* uint64_t used = 0; for every i: used += Budgets[i].UsedBytes
RECURSIVE UsedSum(_)
UsedSum(S) ==
    IF S = {} THEN 0
    ELSE LET d == CHOOSE x \in S : TRUE
         IN  AddU(UsedSum(S \ {d}), Budgets[d].UsedBytes)

RECURSIVE SumOfLimits(_)
SumOfLimits(S) ==
    IF S = {} THEN 0
    ELSE LET d == CHOOSE x \in S : TRUE
         IN  AddU(SumOfLimits(S \ {d}), Budgets[d].MaxBytes)

\* Variant: the loop adds up the limits instead of the consumption
GetTotalRemaining_SumsLimits ==
    LET used == SumOfLimits(Domains)
    IN  IF TotalBudget > used THEN TotalBudget - used ELSE 0

\* (TotalBudget > used) ? (TotalBudget - used) : 0
GetTotalRemaining ==
    LET used == UsedSum(Domains)
    IN  IF TotalBudget > used THEN TotalBudget - used ELSE 0

\* const queries: the value returned is recorded, nothing is written
CallGetRemaining(domain) ==
    /\ instance = "Memory"
    /\ call' = Called("GetRemaining", domain, 0, GetRemaining(domain))
    /\ UNCHANGED <<instance, memVars, errVars, threads>>

CallGetTotalRemaining ==
    /\ instance = "Memory"
    /\ call' = Called("GetTotalRemaining", "", 0, GetTotalRemaining)
    /\ UNCHANGED <<instance, memVars, errVars, threads>>

----------------------------------------------------------------------------
(* ErrorBudgetSystem *)

\* float product on the hundredths grid
MulF(a, b) == (a * b) \div 100

\* Budgets[i].Current = 0.0f; Budgets[i].Limit = BaseLimits[i];
ResetErrBudgets == [t \in ErrorTypes |-> [Current |-> 0, Limit |-> BaseLimits[t]]]

\* Variant: Temporal reads FocusDepth and Reflection reads CameraVelocity
AdaptedLimit_SwapsInputs(t, p) ==
    CASE t = "Temporal"   -> (BaseLimits[t] * (100 + p.FocusDepth)) \div 100
      [] t = "Spatial"    -> (BaseLimits[t] * (200 + p.Luminance)) \div 200
      [] t = "Reflection" -> (BaseLimits[t] * (100 + p.CameraVelocity)) \div 100

\* The three limits AdaptToPerception overwrites
AdaptedLimit(t, p) ==
    CASE t = "Temporal"   -> MulF(BaseLimits[t], 100 + p.CameraVelocity)
      [] t = "Spatial"    -> MulF(BaseLimits[t], 100 + MulF(p.Luminance, 50))
      [] t = "Reflection" -> MulF(BaseLimits[t], 100 + p.FocusDepth)

\* Variant: the adaptation also starts the frame over, clearing Current
AdaptErrBudgets_ClearsCurrent(b, p) ==
    [t \in ErrorTypes |->
        IF t \in {"Temporal", "Spatial", "Reflection"}
        THEN [Current |-> 0, Limit |-> AdaptedLimit(t, p)]
        ELSE [b[t] EXCEPT !.Current = 0]]

AdaptErrBudgets(b, p) ==
    [t \in ErrorTypes |->
        IF t \in {"Temporal", "Spatial", "Reflection"}
        THEN [b[t] EXCEPT !.Limit = AdaptedLimit(t, p)]
        ELSE b[t]]

\* Variant: the early return uses >=, refusing a request that fills the
\* limit exactly
ErrRequestAdmits_RefusesExactFill(B, amount) == ~(B.Current + amount >= B.Limit)

\* The negation of the early return of Request:
\*   if (B.Current + amount > B.Limit) return false;
ErrRequestAdmits(B, amount) == ~(B.Current + amount > B.Limit)

\* B.Current += amount
ErrRequestCharge(B, amount) == [B EXCEPT !.Current = @ + amount]

\* Variant: Reset clears the table, as the memory ledger's Reset does
ErrReset_ZeroesLimits ==
    /\ instance = "Error"
    /\ ErrBudgets' = [t \in ErrorTypes |-> [Current |-> 0, Limit |-> 0]]
    /\ admitted' = 0
    /\ call' = Called("Reset", "", 0, "void")
    /\ UNCHANGED <<instance, memVars, targeted, threads>>

ErrReset ==
    /\ instance = "Error"
    /\ ErrBudgets' = ResetErrBudgets
    /\ admitted' = 0
    /\ call' = Called("Reset", "", 0, "void")
    /\ UNCHANGED <<instance, memVars, targeted, threads>>

AdaptToPerception(p) ==
    /\ instance = "Error"
    /\ ErrBudgets' = AdaptErrBudgets(ErrBudgets, p)
    /\ call' = Called("AdaptToPerception", "", 0, "void")
    /\ UNCHANGED <<instance, memVars, admitted, targeted, threads>>

ErrRequest(type, amount) ==
    /\ instance = "Error"
    /\ targeted' = targeted \cup {type}
    /\ IF ErrRequestAdmits(ErrBudgets[type], amount)
       THEN /\ ErrBudgets' = [ErrBudgets EXCEPT ![type] = ErrRequestCharge(@, amount)]
            /\ admitted' = admitted + 1
            /\ call' = Called("Request", type, amount, "true")
       ELSE /\ UNCHANGED <<ErrBudgets, admitted>>
            /\ call' = Called("Request", type, amount, "false")
    /\ UNCHANGED <<instance, memVars, threads>>

\* The iteration order of Saturation: the ordinals of ErrorType
ErrorOrder == <<"Spatial", "Temporal", "Shading", "Reflection", "Volumetric">>

\* A float quotient Current / Limit is kept as the pair <<Current, Limit>>.
\* a < b on quotients; against finite quotients a pair with Limit = 0
\* compares as the infinity or NaN the division yields.
LessF(a, b) ==
    LET na == IF a[2] < 0 THEN <<-a[1], -a[2]>> ELSE a
        nb == IF b[2] < 0 THEN <<-b[1], -b[2]>> ELSE b
    IN  na[1] * nb[2] < nb[1] * na[2]

\* std::max(a, b): (a < b) ? b : a
MaxF(a, b) == IF LessF(a, b) THEN b ELSE a

\* Budgets[type].Current / Budgets[type].Limit
GetUsage(type) == <<ErrBudgets[type].Current, ErrBudgets[type].Limit>>

\* maxSat after the first n iterations of the loop; maxSat = 0.0f before it
RECURSIVE SaturationUpTo(_)
SaturationUpTo(n) ==
    IF n = 0 THEN <<0, 1>>
    ELSE MaxF(SaturationUpTo(n - 1), GetUsage(ErrorOrder[n]))

\* Variant: the loop stops one type short (i < ERROR_TYPE_COUNT - 1)
Saturation_SkipsLast == SaturationUpTo(Len(ErrorOrder) - 1)

Saturation == SaturationUpTo(Len(ErrorOrder))

\* const queries: the value returned is recorded, nothing is written
CallSaturation ==
    /\ instance = "Error"
    /\ call' = Called("Saturation", "", 0, Saturation)
    /\ UNCHANGED <<instance, memVars, errVars, threads>>

CallGetUsage(type) ==
    /\ instance = "Error"
    /\ call' = Called("GetUsage", type, 0, GetUsage(type))
    /\ UNCHANGED <<instance, memVars, errVars, threads>>

----------------------------------------------------------------------------

\* Request, explored while fewer than max requests were admitted since Reset
BoundedErrRequest(type, amount, max) ==
    admitted < max /\ ErrRequest(type, amount)

\* FrameMemoryBudgetSystem() { Reset(); }  ErrorBudgetSystem() { Reset(); }
Init ==
    /\ instance \in {"Memory", "Error"}
    /\ Budgets = ZeroBudgets
    /\ TotalBudget = 0
    /\ ErrBudgets = ResetErrBudgets
    /\ admitted = 0
    /\ targeted = {}
    /\ threads = [t \in Threads |-> Idle]
    /\ call = Called("construct", "", 0, "void")

Next ==
    \/ Reset
    \/ \E total \in Totals : Initialize(total)
    \/ BeginFrame
    \/ \E domain \in Domains, bytes \in Amounts : Request(domain, bytes)
    \/ ErrReset
    \/ \E p \in PerceptualStates : AdaptToPerception(p)
    \/ \E type \in ErrorTypes, amount \in ErrAmounts :
          BoundedErrRequest(type, amount, MaxErrRequests)
    \/ \E domain \in Domains : CallGetRemaining(domain)
    \/ CallGetTotalRemaining
    \/ CallSaturation

Spec == Init /\ [][Next]_vars

----------------------------------------------------------------------------
(* The error ledger alone, driven through a whole frame: enough admitted   *)
(* requests to touch all five error types, on fewer argument values.       *)

SatInit == Init /\ instance = "Error"

SatNext ==
    \/ ErrReset
    \/ \E p \in SatPerceptualStates : AdaptToPerception(p)
    \/ \E type \in ErrorTypes, amount \in SatAmounts :
          BoundedErrRequest(type, amount, MaxSatRequests)
    \/ CallSaturation
    \/ \E type \in ErrorTypes : CallGetUsage(type)

SpecSat == SatInit /\ [][SatNext]_vars

----------------------------------------------------------------------------
(* Request called by several threads on one FrameMemoryBudgetSystem.       *)
(* The ledger has no synchronization: the limit check (a read of UsedBytes *)
(* and the comparison) and the update are separate steps, and steps of     *)
(* different threads interleave. The unsynchronized update is a data race: *)
(* the build may re-read UsedBytes for the += or reuse the value the check *)
(* loaded, so both outcomes are steps of the update.                       *)

\* if (budget.UsedBytes + bytes > budget.MaxBytes) return false;
RequestCheck(t, domain, bytes) ==
    /\ threads[t].pc = "idle"
    /\ IF RequestAdmits(Budgets[domain], bytes)
       THEN /\ threads' = [threads EXCEPT ![t] =
                    [pc |-> "charge", domain |-> domain, bytes |-> bytes,
                     reg |-> Budgets[domain].UsedBytes]]
            /\ UNCHANGED call
       ELSE /\ call' = Called("Request", domain, bytes, "false")
            /\ UNCHANGED threads
    /\ UNCHANGED <<instance, memVars, errVars>>

\* budget.UsedBytes += bytes; return true;
RequestUpdate(t) ==
    LET d == threads[t].domain
        a == threads[t].bytes
    IN  /\ threads[t].pc = "charge"
        /\ \/ Budgets' = [Budgets EXCEPT ![d] = RequestCharge(@, a)]
           \/ Budgets' = [Budgets EXCEPT ![d].UsedBytes = AddU(threads[t].reg, a)]
        /\ threads' = [threads EXCEPT ![t] = Idle]
        /\ call' = Called("Request", d, a, "true")
        /\ UNCHANGED <<instance, TotalBudget, errVars>>

\* The frame starts from the ledger Initialize(total) left
ConcInit ==
    /\ instance = "Memory"
    /\ \E total \in ConcTotals :
          /\ TotalBudget = total
          /\ Budgets = InitializeBudgets(total)
          /\ call = Called("Initialize", "", total, "void")
    /\ ErrBudgets = ResetErrBudgets
    /\ admitted = 0
    /\ targeted = {}
    /\ threads = [t \in Threads |-> Idle]

ConcNext ==
    \/ \E t \in Threads, domain \in ConcDomains, bytes \in ConcAmounts :
          RequestCheck(t, domain, bytes)
    \/ \E t \in Threads : RequestUpdate(t)

SpecConc == ConcInit /\ [][ConcNext]_vars

----------------------------------------------------------------------------
(* Properties of the memory ledger *)

MaxBytesOf(d)  == Budgets[d].MaxBytes
UsedBytesOf(d) == Budgets[d].UsedBytes

MemStep(op) == instance = "Memory" /\ call'.op = op
ErrStep(op) == instance = "Error" /\ call'.op = op

RECURSIVE SumOver(_, _)
SumOver(f, S) ==
    IF S = {} THEN 0
    ELSE LET x == CHOOSE y \in S : TRUE IN f[x] + SumOver(f, S \ {x})

\* C1. Memory ledger conservation: in every state reachable through
\* Initialize, BeginFrame, Reset and Request with wrapping unsigned
\* arithmetic, UsedBytes <= MaxBytes for each of the 8 domains.
MemConservation == \A d \in Domains : UsedBytesOf(d) <= MaxBytesOf(d)

\* C1 case: a request whose sum wrapped around the word was admitted and
\* a domain with a non-zero limit is exactly full.
MemConservationWitness ==
    /\ instance = "Memory"
    /\ \E d \in Domains : MaxBytesOf(d) > 0 /\ UsedBytesOf(d) = MaxBytesOf(d)
    /\ call.op = "Request" /\ call.ret = "true" /\ call.amount = Modulus - 5

\* C2. Admission correctness: Request(d, a) returns true iff
\* UsedBytes[d] + a <= MaxBytes[d] in unbounded integers; on true
\* UsedBytes[d] grows by exactly a, on false it is unchanged.
MemAdmissionExact ==
    [][MemStep("Request") =>
        LET d == call'.key
            a == call'.amount
        IN  /\ (call'.ret = "true") <=> (UsedBytesOf(d) + a <= MaxBytesOf(d))
            /\ call'.ret = "true"  => Budgets'[d].UsedBytes = UsedBytesOf(d) + a
            /\ call'.ret = "false" => Budgets'[d].UsedBytes = UsedBytesOf(d)]_vars

\* C5. Refusal and frame of Request, both ledgers: a Request that returns
\* false leaves the ledger unchanged; one that returns true changes only
\* the consumed counter of the requested category (limits, the other
\* categories' counters and TotalBudget stay as they were).
RequestFrame ==
    [][/\ MemStep("Request") =>
            /\ TotalBudget' = TotalBudget
            /\ call'.ret = "false" => Budgets' = Budgets
            /\ \A d \in Domains :
                  /\ Budgets'[d].MaxBytes = MaxBytesOf(d)
                  /\ d # call'.key => Budgets'[d].UsedBytes = UsedBytesOf(d)
       /\ ErrStep("Request") =>
            /\ call'.ret = "false" => ErrBudgets' = ErrBudgets
            /\ \A t \in ErrorTypes :
                  /\ ErrBudgets'[t].Limit = ErrBudgets[t].Limit
                  /\ t # call'.key => ErrBudgets'[t].Current = ErrBudgets[t].Current
      ]_vars

\* C5 case: a refused request on a ledger that already holds consumption.
RequestFrameWitness ==
    /\ call.op = "Request" /\ call.ret = "false"
    /\ \/ instance = "Memory" /\ UsedBytesOf(call.key) > 0
       \/ instance = "Error" /\ ErrBudgets[call.key].Current > 0

\* C6. Monotonic consumption within a frame: no Request, whatever its
\* bytes argument, decreases the UsedBytes of any domain.
MemRequestMonotonic ==
    [][MemStep("Request") =>
        \A d \in Domains : Budgets'[d].UsedBytes >= UsedBytesOf(d)]_vars

\* C7. BeginFrame sets the UsedBytes of all 8 domains to zero and leaves
\* every MaxBytes and TotalBudget unchanged, so the ledger is again the
\* one Initialize(TotalBudget) produced and admits what that one admits.
BeginFrameEffect ==
    [][MemStep("BeginFrame") =>
        /\ TotalBudget' = TotalBudget
        /\ \A d \in Domains :
              /\ Budgets'[d].UsedBytes = 0
              /\ Budgets'[d].MaxBytes = MaxBytesOf(d)
              /\ \A a \in Amounts :
                    RequestAdmits(InitializeBudgets(TotalBudget)[d], a)
                        => RequestAdmits(Budgets'[d], a)]_vars

\* C7 case: BeginFrame has just run on an initialized ledger.
BeginFrameEffectWitness ==
    /\ instance = "Memory" /\ call.op = "BeginFrame"
    /\ TotalBudget = 100 /\ MaxBytesOf("Geometry") = 30

\* C8. BeginFrame idempotence: in a state whose UsedBytes are all zero
\* BeginFrame changes nothing of the ledger, and a BeginFrame that
\* directly follows a BeginFrame changes nothing either.
BeginFrameIdempotent ==
    [][MemStep("BeginFrame") =>
        /\ (\A d \in Domains : UsedBytesOf(d) = 0) => memVars' = memVars
        /\ call.op = "BeginFrame" => memVars' = memVars]_vars

\* C8 case: BeginFrame has run on a ledger with non-zero limits and the
\* counters are all zero.
BeginFrameIdempotentWitness ==
    /\ instance = "Memory" /\ call.op = "BeginFrame"
    /\ \A d \in Domains : UsedBytesOf(d) = 0
    /\ \E d \in Domains : MaxBytesOf(d) > 0

\* C10. Proportional partition: Initialize(total) sets each MaxBytes to
\* floor(total * pct / 100) in exact integers, the eight limits sum to at
\* most total and fall short of it by at most 7.
PartitionExact ==
    (instance = "Memory" /\ call.op = "Initialize") =>
        LET limits == [d \in Domains |-> MaxBytesOf(d)]
            sum    == SumOver(limits, Domains)
        IN  /\ \A d \in Domains : limits[d] = (call.amount * Percent[d]) \div 100
            /\ sum <= call.amount
            /\ call.amount - sum <= 7

----------------------------------------------------------------------------
(* Properties of concurrent Request *)

\* C4 as claimed. With the check and the update of Request as separate
\* interleavable steps of two or more threads, UsedBytes <= MaxBytes
\* holds for every domain in every reachable state.
ConcConservation == \A d \in Domains : UsedBytesOf(d) <= MaxBytesOf(d)

\* The step in which thread t performs the update of its Request
UpdateBy(t) == threads[t].pc = "charge" /\ threads'[t].pc = "idle"

\* C4 as amended. An update keeps UsedBytes <= MaxBytes for its domain
\* whenever its check is still current, that is, no other thread has
\* changed that domain's UsedBytes between this thread's check and its
\* update.
ConcUpdateSafeWhenCheckCurrent ==
    [][\A t \in Threads :
          (UpdateBy(t) /\ UsedBytesOf(threads[t].domain) = threads[t].reg)
              => Budgets'[threads[t].domain].UsedBytes
                     <= MaxBytesOf(threads[t].domain)]_vars

\* C4 case: a thread has completed its update, filling the domain
\* exactly, while another thread is between check and update on the same
\* domain.
ConcUpdateWitness ==
    /\ call.op = "Request" /\ call.ret = "true"
    /\ UsedBytesOf(call.key) = MaxBytesOf(call.key)
    /\ \E u \in Threads :
          threads[u].pc = "charge" /\ threads[u].domain = call.key

----------------------------------------------------------------------------
(* Properties of the error ledger *)

\* C3. Error ledger conservation: after any sequence of Reset,
\* AdaptToPerception and Request, Current <= Limit for every error type
\* that has been the target of a Request.
ErrConservation ==
    instance = "Error" =>
        \A t \in targeted : ErrBudgets[t].Current <= ErrBudgets[t].Limit

AllCurrentZero == \A t \in ErrorTypes : ErrBudgets[t].Current = 0
AllLimitsBase  == \A t \in ErrorTypes : ErrBudgets[t].Limit = BaseLimits[t]

\* C9 as claimed. Reset idempotence: whenever every Current is zero,
\* Reset leaves the whole ledger (limits included) unchanged; and a Reset
\* that directly follows a Reset changes nothing.
ErrResetNoOpWhenZero ==
    [][ErrStep("Reset") =>
        /\ AllCurrentZero => ErrBudgets' = ErrBudgets
        /\ call.op = "Reset" => ErrBudgets' = ErrBudgets]_vars

\* C9 as amended. Whenever every Current is zero and every Limit is at its
\* base constant, Reset leaves the whole ledger unchanged; and a Reset
\* that directly follows a Reset changes nothing.
ErrResetIdempotent ==
    [][ErrStep("Reset") =>
        /\ (AllCurrentZero /\ AllLimitsBase) => ErrBudgets' = ErrBudgets
        /\ call.op = "Reset" => ErrBudgets' = ErrBudgets]_vars

\* C9 case: Reset has run after requests were made on the ledger.
ErrResetIdempotentWitness ==
    /\ instance = "Error" /\ call.op = "Reset"
    /\ targeted # {}
    /\ AllCurrentZero /\ AllLimitsBase

----------------------------------------------------------------------------
(* Further properties of the memory ledger *)

\* The ledger the constructor and Reset leave: every field zero
ZeroLedger ==
    /\ TotalBudget = 0
    /\ \A d \in Domains : MaxBytesOf(d) = 0 /\ UsedBytesOf(d) = 0

\* C11. On the ledger the constructor or Reset left (all MaxBytes 0,
\* TotalBudget 0) every Request with bytes > 0 returns false and changes
\* nothing, and the ledger stays that way until Initialize is called.
ZeroLedgerRefuses ==
    [][(instance = "Memory" /\ ZeroLedger) =>
        /\ (MemStep("Request") /\ call'.amount > 0) =>
              (call'.ret = "false" /\ memVars' = memVars)
        /\ call'.op # "Initialize" => ZeroLedger']_vars

\* C11 case: a non-zero request has just been refused by the zero ledger.
ZeroLedgerRefusesWitness ==
    /\ instance = "Memory" /\ ZeroLedger
    /\ call.op = "Request" /\ call.amount = Modulus - 5 /\ call.ret = "false"

\* C12. Order sensitivity and determinism of admission, both ledgers.
\* Requests are decided strictly in call order: when a was admitted and b
\* follows on the same category, b is refused if a and b together exceed
\* the limit, although b alone would have fitted before a (so in the
\* reverse order b is admitted and a refused). The result and the new
\* counter of every Request are determined by the state and the arguments.
OrderSensitiveAdmission ==
    [][/\ (MemStep("Request") /\ call.op = "Request" /\ call.ret = "true"
              /\ call'.key = call.key) =>
            LET d    == call.key
                a    == call.amount
                b    == call'.amount
                used == UsedBytesOf(d) - a
            IN  (used >= 0 /\ used + b <= MaxBytesOf(d)
                           /\ used + a + b > MaxBytesOf(d))
                    => (call'.ret = "false" /\ memVars' = memVars)
       /\ (ErrStep("Request") /\ call.op = "Request" /\ call.ret = "true"
              /\ call'.key = call.key) =>
            LET t       == call.key
                a       == call.amount
                b       == call'.amount
                current == ErrBudgets[t].Current - a
            IN  (current + b <= ErrBudgets[t].Limit
                    /\ current + a + b > ErrBudgets[t].Limit)
                    => (call'.ret = "false" /\ ErrBudgets' = ErrBudgets)
       /\ MemStep("Request") =>
            LET d   == call'.key
                sum == (UsedBytesOf(d) + call'.amount) % Modulus
            IN  IF sum <= MaxBytesOf(d)
                THEN call'.ret = "true" /\ Budgets'[d].UsedBytes = sum
                ELSE call'.ret = "false" /\ Budgets'[d].UsedBytes = UsedBytesOf(d)
       /\ ErrStep("Request") =>
            LET t   == call'.key
                sum == ErrBudgets[t].Current + call'.amount
            IN  IF sum <= ErrBudgets[t].Limit
                THEN call'.ret = "true" /\ ErrBudgets'[t].Current = sum
                ELSE call'.ret = "false"
                     /\ ErrBudgets'[t].Current = ErrBudgets[t].Current
      ]_vars

\* C12 case: Geometry holds 20 of 30 bytes and a request of 15, which
\* fits the limit on its own, has just been refused.
OrderSensitiveAdmissionWitness ==
    /\ instance = "Memory"
    /\ call.op = "Request" /\ call.key = "Geometry"
    /\ call.amount = 15 /\ call.ret = "false"
    /\ MaxBytesOf("Geometry") = 30 /\ UsedBytesOf("Geometry") = 20

----------------------------------------------------------------------------
(* Further properties of the error ledger *)

LimitOf(t)   == ErrBudgets[t].Limit
CurrentOf(t) == ErrBudgets[t].Current

\* C13. Reset() followed by AdaptToPerception(p) ends with every Current
\* zero and the limits Temporal = base * (1 + CameraVelocity),
\* Spatial = base * (1 + Luminance * 0.5), Reflection = base * (1 +
\* FocusDepth); AdaptToPerception(p) followed by Reset() ends with every
\* limit at its base constant.
AdaptResetSequencing ==
    [][/\ (call.op = "Reset" /\ ErrStep("AdaptToPerception")) =>
            \A p \in PerceptualStates :
                AdaptToPerception(p) =>
                    /\ \A t \in ErrorTypes : ErrBudgets'[t].Current = 0
                    /\ ErrBudgets'["Temporal"].Limit * 100 =
                           BaseLimits["Temporal"] * (100 + p.CameraVelocity)
                    /\ ErrBudgets'["Spatial"].Limit * 200 =
                           BaseLimits["Spatial"] * (200 + p.Luminance)
                    /\ ErrBudgets'["Reflection"].Limit * 100 =
                           BaseLimits["Reflection"] * (100 + p.FocusDepth)
       /\ (call.op = "AdaptToPerception" /\ ErrStep("Reset")) =>
            \A t \in ErrorTypes :
                ErrBudgets'[t].Limit = BaseLimits[t] /\ ErrBudgets'[t].Current = 0
      ]_vars

\* C13 case: the frame was reset after earlier requests and then adapted
\* with CameraVelocity 0.5: nothing consumed, Temporal limit 1.2.
AdaptResetSequencingWitness ==
    /\ instance = "Error" /\ call.op = "AdaptToPerception"
    /\ targeted # {} /\ admitted = 0
    /\ \A t \in ErrorTypes : CurrentOf(t) = 0
    /\ LimitOf("Temporal") = 120

\* C14. Frame of AdaptToPerception: it overwrites only the Limit of
\* Temporal, Spatial and Reflection; the Limits of Shading and Volumetric
\* stay at their base constants and no Current changes.
AdaptFrame ==
    [][ErrStep("AdaptToPerception") =>
        /\ \A t \in ErrorTypes : ErrBudgets'[t].Current = CurrentOf(t)
        /\ \A t \in {"Shading", "Volumetric"} :
              /\ ErrBudgets'[t].Limit = LimitOf(t)
              /\ ErrBudgets'[t].Limit = BaseLimits[t]]_vars

\* C14 case: an adaptation has changed a limit on a ledger that holds
\* consumption.
AdaptFrameWitness ==
    /\ instance = "Error" /\ call.op = "AdaptToPerception"
    /\ \E t \in ErrorTypes : CurrentOf(t) # 0
    /\ \E t \in ErrorTypes : LimitOf(t) # BaseLimits[t]

\* C15. Negative perceptual input saturates to refusal: while a category
\* has a Limit below zero and nothing consumed (as after Reset and an
\* AdaptToPerception with a negative enough input), every Request for it,
\* for any amount, returns false and changes nothing.
NegativeLimitRefusesAll ==
    [][(ErrStep("Request") /\ LimitOf(call'.key) < 0 /\ CurrentOf(call'.key) = 0) =>
        (call'.ret = "false" /\ ErrBudgets' = ErrBudgets)]_vars

\* C16. Error ledger admission: Request(type, amount) returns true exactly
\* when Current + amount <= Limit for the limit in force, adding exactly
\* amount on acceptance. After Reset and AdaptToPerception with
\* CameraVelocity 0.5 the Temporal limit is 1.2, Request(Temporal, 1.0) is
\* accepted and a following Request(Temporal, 0.5) refused.
ErrAdmissionExact ==
    [][/\ ErrStep("Request") =>
            LET t == call'.key
                a == call'.amount
            IN  /\ (call'.ret = "true") <=> (CurrentOf(t) + a <= LimitOf(t))
                /\ call'.ret = "true"  => ErrBudgets'[t].Current = CurrentOf(t) + a
                /\ call'.ret = "false" => ErrBudgets'[t].Current = CurrentOf(t)
       /\ (call.op = "Reset" /\ ErrStep("AdaptToPerception")
              /\ AdaptToPerception([CameraVelocity |-> 50, FocusDepth |-> 0,
                                    Luminance |-> 0])) =>
            ErrBudgets'["Temporal"].Limit = 120
       /\ (ErrStep("Request") /\ call'.key = "Temporal"
              /\ LimitOf("Temporal") = 120) =>
            /\ (CurrentOf("Temporal") = 0 /\ call'.amount = 100) =>
                  call'.ret = "true"
            /\ (CurrentOf("Temporal") = 100 /\ call'.amount = 50) =>
                  call'.ret = "false"
      ]_vars

\* C16 case: with the Temporal limit adapted to 1.2 and 1.0 admitted, a
\* request of 0.5 has just been refused.
ErrAdmissionExactWitness ==
    /\ instance = "Error"
    /\ call.op = "Request" /\ call.key = "Temporal"
    /\ call.amount = 50 /\ call.ret = "false"
    /\ LimitOf("Temporal") = 120 /\ CurrentOf("Temporal") = 100

\* Two quotients have the same value
SameF(a, b) == ~LessF(a, b) /\ ~LessF(b, a)

AllLimitsNonZero == \A t \in ErrorTypes : LimitOf(t) # 0

----------------------------------------------------------------------------
(* Properties of the memory ledger's queries *)

\* max(0, x) in unbounded integers
Max0(x) == IF x > 0 THEN x ELSE 0

\* C18. Remaining consistency: in every reachable state and for every
\* domain d, GetRemaining(d) equals max(0, MaxBytes[d] - UsedBytes[d])
\* computed in unbounded integers, is never negative and never exceeds
\* MaxBytes[d]; a GetRemaining call returns that value and changes no
\* state.
RemainingConsistent ==
    /\ [](instance = "Memory" =>
            \A d \in Domains :
                /\ GetRemaining(d) = Max0(MaxBytesOf(d) - UsedBytesOf(d))
                /\ GetRemaining(d) >= 0
                /\ GetRemaining(d) <= MaxBytesOf(d))
    /\ [][MemStep("GetRemaining") =>
            /\ call'.ret = Max0(MaxBytesOf(call'.key) - UsedBytesOf(call'.key))
            /\ call'.ret >= 0
            /\ call'.ret <= MaxBytesOf(call'.key)
            /\ UNCHANGED <<instance, memVars, errVars, threads>>]_vars

\* C18 case: GetRemaining has been asked of a partly consumed domain and
\* returned what is left of its limit.
RemainingConsistentWitness ==
    /\ instance = "Memory" /\ call.op = "GetRemaining"
    /\ UsedBytesOf(call.key) = 20 /\ MaxBytesOf(call.key) = 30
    /\ call.ret = 10

\* C19. Re-initialization replaces the whole configuration: from any
\* reachable state, mid-frame included, Initialize(total) yields a state
\* that depends only on total (TotalBudget = total, each MaxBytes the
\* share of total computed in the machine word, every UsedBytes zero);
\* no BeginFrame and no Request changes any MaxBytes or TotalBudget.
InitializeReplacesConfiguration ==
    [][/\ MemStep("Initialize") =>
            /\ TotalBudget' = call'.amount
            /\ \A d \in Domains :
                  /\ Budgets'[d].UsedBytes = 0
                  /\ Budgets'[d].MaxBytes =
                        ((call'.amount * Percent[d]) % Modulus) \div 100
       /\ (MemStep("BeginFrame") \/ MemStep("Request")) =>
            /\ TotalBudget' = TotalBudget
            /\ \A d \in Domains : Budgets'[d].MaxBytes = MaxBytesOf(d)
      ]_vars

\* C19 case: Initialize(20) has just run: the limits are the shares of 20
\* and nothing is consumed.
InitializeReplacesConfigurationWitness ==
    /\ instance = "Memory" /\ call.op = "Initialize" /\ call.amount = 20
    /\ TotalBudget = 20 /\ MaxBytesOf("Geometry") = 6 /\ MaxBytesOf("UI") = 1
    /\ \A d \in Domains : UsedBytesOf(d) = 0

\* The sum of UsedBytes over all domains, in unbounded integers
TotalUsed == SumOver([d \in Domains |-> UsedBytesOf(d)], Domains)

\* C20. The global ceiling is never exceeded: in every state reachable
\* through Reset, Initialize, BeginFrame and Request the sum of UsedBytes
\* over the 8 domains is at most TotalBudget; the sum GetTotalRemaining
\* accumulates does not wrap, its clamp to zero does not take effect, and
\* it returns TotalBudget minus the sum; GetTotalRemaining() = 0 while
\* some domain has GetRemaining > 0 does not occur.
GlobalCeiling ==
    instance = "Memory" =>
        /\ TotalUsed <= TotalBudget
        /\ UsedSum(Domains) = TotalUsed
        /\ GetTotalRemaining = TotalBudget - TotalUsed
        /\ GetTotalRemaining = 0 => \A d \in Domains : GetRemaining(d) = 0
        /\ call.op = "GetTotalRemaining" => call.ret = TotalBudget - TotalUsed

\* C20 case: GetTotalRemaining has been asked mid-frame, with 40 of 100
\* bytes consumed across more than one domain, and returned 60.
GlobalCeilingWitness ==
    /\ instance = "Memory" /\ call.op = "GetTotalRemaining"
    /\ TotalBudget = 100 /\ TotalUsed = 40 /\ call.ret = 60
    /\ Cardinality({d \in Domains : UsedBytesOf(d) > 0}) >= 2

====
